---------------------------- MODULE Spec2Model ----------------------------
(***************************************************************************)
(* The kanban board (AppComponent, src/src/app/app.component.ts, the class *)
(* that starts at line 468) and the weekly calendar (CalendarComponent,    *)
(* src/unnamed/part_000 and src/unnamed/part_001, two versions of the same *)
(* class), which share the browser's localStorage item 'kanbanBoard'.      *)
(*                                                                         *)
(* Objects are identified by their id: every task and every column of one  *)
(* page session has an id that no other object of the session has (ids are *)
(* crypto.randomUUID() values or the four built-in column ids), so a       *)
(* reference to a task or column object is modelled by that id.            *)
(*                                                                         *)
(* A JavaScript object is a TLA+ record whose DOMAIN is the set of its own *)
(* keys: a key that is missing reads as undefined.                         *)
(*                                                                         *)
(* Time is counted in minutes since Monday 2024-06-03T00:00Z (the code     *)
(* counts milliseconds); a local time zone is a fixed offset from UTC.     *)
(***************************************************************************)
EXTENDS Integers, Sequences, FiniteSets, Bags, TLC

VARIABLES
    \* ---- AppComponent
    initialized,      \* ngOnInit has run in this page session
    columns,          \* this.columns: sequence of [id, title, tasks]
    showTaskModal,    \* this.showTaskModal
    currentColumn,    \* this.currentColumn: a column id or Null
    editingTask,      \* this.editingTask: a task id or Null
    selectedStatusId, \* this.selectedStatusId
    formStatusId,     \* this.taskForm.value.statusId as the open* methods set it
    \* ---- localStorage
    kanbanBoard,      \* the item 'kanbanBoard'
    \* ---- CalendarComponent
    calendarFile,     \* which version of the class is built: "part_000" or "part_001"
    tzOffset,         \* minutes east of UTC of the local time zone
    weekStart,        \* this.weekStart, an instant
    dayTasks,         \* this.dayTasks: 7 sequences of CalendarTask
    pendingRefresh,   \* number of setTimeout callbacks of onDrop not yet run
    drops,            \* number of calendar drops made so far
    lastDrop,         \* the last calendar drop: what was dropped where, and the stored task before it (history)
    needsRefresh,     \* a drop has written to 'kanbanBoard' and no refresh has read it since (history)
    showCalendarModal, \* the calendar's this.showTaskModal
    modalDayIndex,    \* this.modalDayIndex
    editingIndex,     \* this.editingIndex: an index or NoIndex for null
    localEdits,       \* edits made to dayTasks by the calendar's modal and deleteTask: the kinds not yet
                      \* followed by a refresh, the kinds the last refresh discarded, their number (history)
    \* ---- AppComponent, the task type catalog
    taskTypes,        \* this.taskTypes: sequence of [id, name, color, enabled, forTasks, forEvents]
    showEditTypesModal, \* this.showEditTypesModal
    storedTaskTypes,  \* the localStorage item 'taskTypes'
    \* ---- bookkeeping
    nextTaskId,       \* number of task ids handed out by crypto.randomUUID()
    nextColumnId,     \* number of column ids handed out by crypto.randomUUID()
    columnOps,        \* number of columns added, deleted or retitled so far
    last              \* the handler that ran last, when it is one that writes ("none" otherwise)

vars == << initialized, columns, showTaskModal, currentColumn, editingTask,
           selectedStatusId, formStatusId, kanbanBoard, calendarFile,
           tzOffset, weekStart, dayTasks, pendingRefresh, drops, lastDrop,
           needsRefresh, showCalendarModal, modalDayIndex, editingIndex, localEdits,
           taskTypes, showEditTypesModal, storedTaskTypes,
           nextTaskId, nextColumnId, columnOps, last >>

appVars == << initialized, columns, showTaskModal, currentColumn, editingTask,
              selectedStatusId, formStatusId >>

modalVars == << showCalendarModal, modalDayIndex, editingIndex >>

calVars == << calendarFile, tzOffset, weekStart, dayTasks, pendingRefresh,
             drops, lastDrop, needsRefresh, modalVars, localEdits >>

typeVars == << taskTypes, showEditTypesModal, storedTaskTypes >>

-----------------------------------------------------------------------------
(* Bounds of the model *)

MaxTasks == 2

MaxColumnOps == 1

MaxPending == 1

MaxDrops == 2

MaxWeekNav == 1

MaxCalendarTasks == 1

MaxCalendarEdits == 3

-----------------------------------------------------------------------------
(* JavaScript values *)

Null == "<null>"

\* A value of a date field: null, the empty string, a string that is no
\* date, or the string YYYY-MM-DD of the day `day` (days since 2024-06-03).
NullV == [k |-> "null", day |-> 0]

EmptyV == [k |-> "empty", day |-> 0]

InvalidV == [k |-> "invalid", day |-> 0]

DateStr(n) == [k |-> "date", day |-> n]

\* obj.key, where a missing key reads as undefined
Has(obj, key) == key \in DOMAIN obj

\* JavaScript truthiness of a date-field value read from obj (undefined, null and "" are falsy)
Truthy(obj, key) == Has(obj, key) /\ obj[key].k \in {"invalid", "date"}

\* editingIndex === null
NoIndex == -1

\* No edit of dayTasks is waiting for a refresh and none was discarded
NoEdits == [pending |-> {}, discarded |-> {}, made |-> 0]

Min(a, b) == IF a < b THEN a ELSE b

Max(a, b) == IF a > b THEN a ELSE b

\* Array.prototype.splice(i, 1): the array without its element at 0-based index i
RemoveAt(s, i) == SubSeq(s, 1, i) \o SubSeq(s, i + 2, Len(s))

\* Array.prototype.splice(i, 0, x): x inserted at 0-based index i; an index
\* beyond the length inserts at the end
InsertAt(s, i, x) ==
    LET j == Min(Max(i, 0), Len(s))
    IN  SubSeq(s, 1, j) \o << x >> \o SubSeq(s, j + 1, Len(s))

\* Array.prototype.findIndex / indexOf by id: 0-based index of the first element with this id, or -1
IndexOfId(s, id) ==
    IF \E i \in 1..Len(s) : s[i].id = id
    THEN (CHOOSE i \in 1..Len(s) : s[i].id = id /\ \A j \in 1..(i - 1) : s[j].id # id) - 1
    ELSE -1

-----------------------------------------------------------------------------
(* @angular/cdk/drag-drop, as AppComponent.drop and CalendarComponent.onDrop call it *)

\* clamp(value, max) of the CDK: Math.max(0, Math.min(max, value))
Clamp(value, max) == Max(0, Min(max, value))

\* The mutant of moveItemInArray: the two elements change places
moveItemInArraySwaps(array, fromIndex, toIndex) ==
    LET from == Clamp(fromIndex, Len(array) - 1)
        to   == Clamp(toIndex, Len(array) - 1)
    IN  IF Len(array) = 0 \/ from = to
        THEN array
        ELSE [array EXCEPT ![from + 1] = array[to + 1], ![to + 1] = array[from + 1]]

\* moveItemInArray(array, fromIndex, toIndex): both indices are clamped to
\* [0, length - 1]; the element at `from` is taken out and put back at `to`
moveItemInArray(array, fromIndex, toIndex) ==
    LET from == Clamp(fromIndex, Len(array) - 1)
        to   == Clamp(toIndex, Len(array) - 1)
    IN  IF Len(array) = 0 \/ from = to
        THEN array
        ELSE InsertAt(RemoveAt(array, from), to, array[from + 1])

\* The mutant of transferArrayItem: the element is copied, not moved
transferArrayItemCopies(currentArray, targetArray, currentIndex, targetIndex) ==
    LET from == Clamp(currentIndex, Len(currentArray) - 1)
        to   == Clamp(targetIndex, Len(targetArray))
    IN  IF Len(currentArray) = 0
        THEN [source |-> currentArray, target |-> targetArray]
        ELSE [source |-> currentArray,
              target |-> InsertAt(targetArray, to, currentArray[from + 1])]

\* The mutant of transferArrayItem: the target index is clamped to the
\* last position of the target, not to its length
transferArrayItemBeforeLast(currentArray, targetArray, currentIndex, targetIndex) ==
    LET from == Clamp(currentIndex, Len(currentArray) - 1)
        to   == Clamp(targetIndex, Len(targetArray) - 1)
    IN  IF Len(currentArray) = 0
        THEN [source |-> currentArray, target |-> targetArray]
        ELSE [source |-> RemoveAt(currentArray, from),
              target |-> InsertAt(targetArray, to, currentArray[from + 1])]

\* transferArrayItem(currentArray, targetArray, currentIndex, targetIndex):
\* the source index is clamped to [0, length - 1], the target index to
\* [0, length of the target]; nothing happens when the source is empty
transferArrayItem(currentArray, targetArray, currentIndex, targetIndex) ==
    LET from == Clamp(currentIndex, Len(currentArray) - 1)
        to   == Clamp(targetIndex, Len(targetArray))
    IN  IF Len(currentArray) = 0
        THEN [source |-> currentArray, target |-> targetArray]
        ELSE [source |-> RemoveAt(currentArray, from),
              target |-> InsertAt(targetArray, to, currentArray[from + 1])]

-----------------------------------------------------------------------------
(* localStorage and JSON *)

\* localStorage.getItem returns null: the item was never written
NoItem == [k |-> "none", doc |-> << >>]

\* an item whose text is not JSON
Malformed == [k |-> "malformed", doc |-> << >>]

\* The mutant of Stringify: a scheduleDate that is null is not written
StringifyDropsNulls(cols) ==
    [k |-> "json",
     doc |-> [i \in 1..Len(cols) |->
                [id |-> cols[i].id, title |-> cols[i].title,
                 tasks |-> [j \in 1..Len(cols[i].tasks) |->
                    LET t == cols[i].tasks[j]
                    IN  IF Has(t, "scheduleDate") /\ t.scheduleDate = NullV
                        THEN [key \in DOMAIN t \ {"scheduleDate"} |-> t[key]]
                        ELSE t]]]]

\* JSON.stringify of a column list: every column with its id, title and
\* tasks, every task with its own keys
Stringify(cols) ==
    [k |-> "json",
     doc |-> [i \in 1..Len(cols) |->
                [id |-> cols[i].id, title |-> cols[i].title, tasks |-> cols[i].tasks]]]

\* `if (saved)`: the item exists and is not the empty string
ItemTruthy(item) == item.k # "none"

\* JSON.parse throws on this item
ParseThrows(item) == item.k = "malformed"

\* JSON.parse(item)
Parse(item) == item.doc

-----------------------------------------------------------------------------
(* AppComponent: helpers *)

\* initializeBoard's defaultColumns
defaultColumns ==
    << [id |-> "new", title |-> "New task", tasks |-> << >>],
       [id |-> "scheduled", title |-> "Scheduled", tasks |-> << >>],
       [id |-> "inprogress", title |-> "In Progress", tasks |-> << >>],
       [id |-> "completed", title |-> "Completed", tasks |-> << >>] >>

\* crypto.randomUUID(): an id no object has had before
TaskUUID(n) == "task-" \o ToString(n)

ColumnUUID(n) == "column-" \o ToString(n)

ColumnIds(cols) == { cols[i].id : i \in 1..Len(cols) }

\* this.columns.find(c => c.id === id): 1-based position of the first such column, 0 for undefined
FindColumn(cols, id) ==
    IF \E i \in 1..Len(cols) : cols[i].id = id
    THEN CHOOSE i \in 1..Len(cols) : cols[i].id = id /\ \A j \in 1..(i - 1) : cols[j].id # id
    ELSE 0

\* this.columns.find(c => c.tasks.includes(task)): position of the first column holding the task, 0 for undefined
FindHolder(cols, taskId) ==
    IF \E i \in 1..Len(cols) : IndexOfId(cols[i].tasks, taskId) > -1
    THEN CHOOSE i \in 1..Len(cols) :
            /\ IndexOfId(cols[i].tasks, taskId) > -1
            /\ \A j \in 1..(i - 1) : IndexOfId(cols[j].tasks, taskId) = -1
    ELSE 0

\* a ?? b on ids
Coalesce(a, b) == IF a # Null THEN a ELSE b

\* The values a valid task form submits (statusId apart). dueDate is
\* required, so it is a date; scheduleDate is null unless the user sets it.
FormValues ==
    { [title |-> "Alpha", description |-> "the first task", priority |-> "medium",
       dueDate |-> DateStr(0), assignee |-> "", estimatedTimeHours |-> 0,
       scheduleDate |-> NullV, type |-> "operational"],
      [title |-> "Beta", description |-> "the second task", priority |-> "high",
       dueDate |-> DateStr(9), assignee |-> "Me", estimatedTimeHours |-> 2,
       scheduleDate |-> DateStr(2), type |-> "technical"] }

\* The text a user types as a column title (prompt, contenteditable)
Titles == { "Backlog" }

\* The new task object of saveTask
NewTask(id, v) ==
    [id |-> id, title |-> v.title, description |-> v.description,
     priority |-> v.priority, dueDate |-> v.dueDate, assignee |-> v.assignee,
     estimatedTimeHours |-> v.estimatedTimeHours, scheduleDate |-> v.scheduleDate,
     type |-> v.type]

\* Object.assign(task, {title: v.title, ...}): the eight form fields are
\* set, every other key of the task is kept
AssignFields(task, v) ==
    [key \in DOMAIN task \cup DOMAIN v |-> IF key \in DOMAIN v THEN v[key] ELSE task[key]]

\* The column list with Object.assign applied to the task object `taskId`
AssignInColumns(cols, taskId, v) ==
    [i \in 1..Len(cols) |->
        [cols[i] EXCEPT !.tasks =
            [j \in 1..Len(cols[i].tasks) |->
                IF cols[i].tasks[j].id = taskId
                THEN AssignFields(cols[i].tasks[j], v)
                ELSE cols[i].tasks[j]]]]

-----------------------------------------------------------------------------
(* Date: instants are minutes since 2024-06-03T00:00Z, a Monday *)

\* One day: 86400000 ms in the code, 1440 minutes here
DayLen == 1440

\* The local time zones the model runs in, as minutes east of UTC:
\* UTC-05:00, UTC and UTC+05:30
Offsets == { -300, 0, 330 }

\* The number of the local calendar day of instant t (0 is 2024-06-03)
LocalDay(t, tz) == (t + tz) \div DayLen

\* Date.prototype.getDay(): 0 is Sunday; day 0 of the model is a Monday
getDay(t, tz) == (LocalDay(t, tz) + 1) % 7

\* d.setDate(d.getDate() + n): n local days later, same local time of day
AddDays(t, n) == t + n * DayLen

\* d.setHours(0, 0, 0, 0): the local midnight that starts t's local day
LocalMidnight(t, tz) == LocalDay(t, tz) * DayLen - tz

\* date.toISOString().split('T')[0]: the UTC calendar date of t, as YYYY-MM-DD
toISODate(t) == DateStr(t \div DayLen)

\* new Date("YYYY-MM-DD").getTime(): a date-only string is read as UTC midnight
ParseDate(v) == v.day * DayLen

\* isNaN(new Date(dateStr).getTime())
IsNaNDate(v) == v.k # "date"

\* The mutant of getStartOfWeek: the week starts on Sunday
getStartOfWeekSunday(date, tz) ==
    LET day == getDay(date, tz)
    IN  LocalMidnight(AddDays(date, 0 - day), tz)

\* getStartOfWeek(date)
getStartOfWeek(date, tz) ==
    LET day == (getDay(date, tz) + 6) % 7
    IN  LocalMidnight(AddDays(date, 0 - day), tz)

-----------------------------------------------------------------------------
(* CalendarComponent: helpers *)

\* CalendarComponent.types: the calendar's own list of seven types
types ==
    << [id |-> "operational", name |-> "Operational", color |-> "#2f6fec"],
       [id |-> "technical", name |-> "Technical", color |-> "#17a2b8"],
       [id |-> "strategic", name |-> "Strategic", color |-> "#28a745"],
       [id |-> "hiring", name |-> "Hiring", color |-> "#6f42c1"],
       [id |-> "financial", name |-> "Financial", color |-> "#ffc107"],
       [id |-> "meeting", name |-> "Meeting", color |-> "#fd7e14"],
       [id |-> "interview", name |-> "Interview", color |-> "#e83e8c"] >>

\* getTypeColor(typeId): this.types.find(t => t.id === typeId)?.color || '#2f6fec'
getTypeColor(typeId) ==
    LET n == IF \E k \in 1..Len(types) : types[k].id = typeId
             THEN CHOOSE k \in 1..Len(types) : types[k].id = typeId ELSE 0
    IN  IF n # 0 /\ types[n].color # "" THEN types[n].color ELSE "#2f6fec"

\* getTypeName(typeId): this.types.find(t => t.id === typeId)?.name || 'Operational'
getTypeName(typeId) ==
    LET n == IF \E k \in 1..Len(types) : types[k].id = typeId
             THEN CHOOSE k \in 1..Len(types) : types[k].id = typeId ELSE 0
    IN  IF n # 0 /\ types[n].name # "" THEN types[n].name ELSE "Operational"

CalendarFiles == { "part_000", "part_001" }

EmptyDays == [i \in 0..6 |-> << >>]

\* No stored task
NoTask == [none |-> TRUE]

NoDrop == [id |-> Null, source |-> 0, target |-> 0, wrote |-> FALSE,
           written |-> NullV, before |-> NoTask]

\* columns.flatMap(c => c.tasks || [])
RECURSIVE FlatTasks(_)
FlatTasks(doc) ==
    IF Len(doc) = 0 THEN << >>
    ELSE (IF Has(doc[1], "tasks") THEN doc[1].tasks ELSE << >>) \o FlatTasks(Tail(doc))

\* The mutant of EffectiveDate: dueDate is preferred to scheduleDate
EffectiveDatePrefersDue(t) ==
    IF Truthy(t, "dueDate") THEN t.dueDate
    ELSE IF Truthy(t, "scheduleDate") THEN t.scheduleDate
    ELSE NullV

\* t.scheduleDate || t.dueDate || null
EffectiveDate(t) ==
    IF Truthy(t, "scheduleDate") THEN t.scheduleDate
    ELSE IF Truthy(t, "dueDate") THEN t.dueDate
    ELSE NullV

\* The CalendarTask refreshCalendarFromStorage builds for stored task t
CalendarTaskOf(t, idx) ==
    [id |-> IF Has(t, "id") THEN t.id ELSE "calendar-uuid",
     title |-> IF Has(t, "title") THEN t.title ELSE "Untitled",
     dayIndex |-> idx,
     typeId |-> IF Has(t, "type") THEN t.type ELSE "operational",
     durationMinutes |-> IF Has(t, "estimatedTimeHours") /\ t.estimatedTimeHours # 0
                         THEN t.estimatedTimeHours * 60 ELSE 15]

\* The loop of refreshCalendarFromStorage over `all`, from buckets `acc`
RECURSIVE Bucket(_, _, _)
Bucket(all, start, acc) ==
    IF Len(all) = 0 THEN acc
    ELSE LET t       == all[1]
             dateStr == EffectiveDate(t)
             d       == ParseDate(dateStr)
             end     == AddDays(start, 7)
             idx     == (d - start) \div DayLen
             keep    == /\ dateStr.k \in {"invalid", "date"}
                        /\ ~IsNaNDate(dateStr)
                        /\ d >= start /\ d < end
                        /\ idx >= 0 /\ idx < 7
         IN  Bucket(Tail(all), start,
                    IF keep THEN [acc EXCEPT ![idx] = Append(@, CalendarTaskOf(t, idx))]
                    ELSE acc)

\* refreshCalendarFromStorage(): the new value of this.dayTasks
refreshCalendarFromStorage(item, start) ==
    IF ~ItemTruthy(item) \/ ParseThrows(item)
    THEN EmptyDays
    ELSE Bucket(FlatTasks(Parse(item)), start, EmptyDays)

\* The first place (column, index) of the stored board whose task has this id; << 0, 0 >> if none
FindStored(doc, id) ==
    LET hits == { w \in (1..Len(doc)) \X (1..MaxTasks + 3) :
                    /\ Has(doc[w[1]], "tasks")
                    /\ w[2] <= Len(doc[w[1]].tasks)
                    /\ Has(doc[w[1]].tasks[w[2]], "id")
                    /\ doc[w[1]].tasks[w[2]].id = id }
    IN  IF hits = {} THEN << 0, 0 >>
        ELSE CHOOSE w \in hits :
               \A u \in hits : w[1] < u[1] \/ (w[1] = u[1] /\ w[2] <= u[2])

\* obj with obj[key] = value, the key added when it is missing
SetKey(obj, key, value) ==
    [f \in DOMAIN obj \cup {key} |-> IF f = key THEN value ELSE obj[f]]

\* part_000, updateKanbanTaskDate: which date field takes the new date
WriteDate000(task, newDateISO) ==
    IF Has(task, "scheduleDate") THEN SetKey(task, "scheduleDate", newDateISO)
    ELSE IF Has(task, "dueDate") THEN SetKey(task, "dueDate", newDateISO)
    ELSE SetKey(task, "scheduleDate", newDateISO)

\* part_001, updateKanbanTaskDate: which date field takes the new date
WriteDate001(task, newDateISO) ==
    IF Has(task, "scheduleDate") THEN SetKey(task, "scheduleDate", newDateISO)
    ELSE SetKey(task, "dueDate", newDateISO)

\* updateKanbanTaskDate: newDateISO
NewDateISO(start, newDayIndex) == toISODate(AddDays(start, newDayIndex))

\* updateKanbanTaskDate(calendarTask, newDayIndex): the new value of the
\* item 'kanbanBoard' (the old one when nothing is written)
updateKanbanTaskDate(file, item, start, id, newDayIndex) ==
    IF ~ItemTruthy(item) \/ ParseThrows(item) THEN item
    ELSE LET doc == Parse(item)
             w   == FindStored(doc, id)
         IN  IF w = << 0, 0 >> THEN item
             ELSE LET task == doc[w[1]].tasks[w[2]]
                      new  == IF file = "part_000"
                              THEN WriteDate000(task, NewDateISO(start, newDayIndex))
                              ELSE WriteDate001(task, NewDateISO(start, newDayIndex))
                  IN  Stringify([doc EXCEPT ![w[1]].tasks[w[2]] = new])

\* The stored task with this id, NoTask if there is none
StoredTask(item, id) ==
    IF ~ItemTruthy(item) \/ ParseThrows(item) THEN NoTask
    ELSE LET w == FindStored(Parse(item), id)
         IN  IF w = << 0, 0 >> THEN NoTask ELSE Parse(item)[w[1]].tasks[w[2]]

\* list.forEach(task => task.dayIndex = n)
SetDayIndex(list, n) == [k \in 1..Len(list) |-> [list[k] EXCEPT !.dayIndex = n]]

-----------------------------------------------------------------------------
(* AppComponent: the task type catalog *)

\* One entry of the catalog
TaskType(id, name, color, enabled, forTasks, forEvents) ==
    [id |-> id, name |-> name, color |-> color, enabled |-> enabled,
     forTasks |-> forTasks, forEvents |-> forEvents]

\* The field initialiser of taskTypes: the ten built-in types
defaultTaskTypes ==
    << TaskType("operational", "Operational", "#2f6fec", TRUE, TRUE, FALSE),
       TaskType("technical", "Technical", "#17a2b8", TRUE, TRUE, FALSE),
       TaskType("strategic", "Strategic", "#28a745", TRUE, TRUE, FALSE),
       TaskType("hiring", "Hiring", "#6f42c1", TRUE, TRUE, FALSE),
       TaskType("financial", "Financial", "#ffc107", TRUE, TRUE, FALSE),
       TaskType("meeting", "Meeting", "#fd7e14", FALSE, FALSE, TRUE),
       TaskType("online-call", "Online call", "#6610f2", FALSE, FALSE, TRUE),
       TaskType("interview", "Interview", "#e83e8c", FALSE, FALSE, TRUE),
       TaskType("type1", "Type 1", "#fd7e14", FALSE, FALSE, TRUE),
       TaskType("type2", "Type 2", "#20c997", FALSE, FALSE, TRUE) >>

\* The mutant of StringifyTypes: only the enabled entries are written
StringifyTypesEnabled(catalog) ==
    [k |-> "json", doc |-> SelectSeq(catalog, LAMBDA t : t.enabled)]

\* JSON.stringify(this.taskTypes)
StringifyTypes(catalog) == [k |-> "json", doc |-> catalog]

\* loadTaskTypes(): the catalog after it; a parse error is caught and logged
loadTaskTypes(catalog, item) ==
    IF ItemTruthy(item) /\ ~ParseThrows(item) THEN Parse(item) ELSE catalog

\* this.taskTypes.find(t => t.id === typeId): a 1-based position, 0 for undefined
FindType(catalog, typeId) ==
    IF \E n \in 1..Len(catalog) : catalog[n].id = typeId
    THEN CHOOSE n \in 1..Len(catalog) :
            /\ catalog[n].id = typeId
            /\ \A k \in 1..(n - 1) : catalog[k].id # typeId
    ELSE 0

\* `type || 'operational'`: type is the value of the field, Null when the
\* field is missing
TypeOrOperational(type) == IF type \in {Null, ""} THEN "operational" ELSE type

\* getTaskTypeColor(task), task.type being `type`
getTaskTypeColor(catalog, type) ==
    LET taskType == FindType(catalog, TypeOrOperational(type))
    IN  IF taskType # 0 THEN catalog[taskType].color ELSE "#2f6fec"

\* getTaskTypeName(task), task.type being `type`
getTaskTypeName(catalog, type) ==
    LET taskType == FindType(catalog, TypeOrOperational(type))
    IN  IF taskType # 0 THEN catalog[taskType].name ELSE "Operational"

\* getSelectedTaskType(), the form's type control holding `type`
getSelectedTaskType(catalog, type) ==
    LET found == FindType(catalog, TypeOrOperational(type))
    IN  IF found # 0 THEN catalog[found] ELSE catalog[1]

\* newName.trim(), on the names the model catalog
Trim(newName) ==
    CASE newName = " Ops " -> "Ops"
      [] newName = "Calls " -> "Calls"
      [] newName = "  " -> ""
      [] OTHER -> newName

\* The mutant of ToggledForTasks: enabled is left as it is
ToggledForTasksOnly(type) == [type EXCEPT !.forTasks = ~type.forTasks]

\* toggleTypeForTasks(type): the entry after it
ToggledForTasks(type) ==
    IF ~type.forTasks
    THEN [type EXCEPT !.forTasks = TRUE, !.enabled = TRUE]
    ELSE [type EXCEPT !.forTasks = FALSE]

-----------------------------------------------------------------------------
(* AppComponent: the handlers *)

\* The mutant of saveToLocalStorage: the write is left out
saveToLocalStorageSkipped(cols, item) == item

\* saveToLocalStorage(): the new value of the item 'kanbanBoard'
saveToLocalStorage(cols, item) == Stringify(cols)

\* loadFromLocalStorage(): this.columns after it. The parsed document
\* replaces the columns when the item is there; a JSON.parse that throws
\* assigns nothing
loadFromLocalStorage(cols, item) ==
    IF ItemTruthy(item) /\ ~ParseThrows(item) THEN Parse(item) ELSE cols

\* A page load: the constructor and the field initializers
Construct ==
    /\ initialized
    /\ initialized' = FALSE
    /\ columns' = << >>
    /\ showTaskModal' = FALSE
    /\ currentColumn' = Null
    /\ editingTask' = Null
    /\ selectedStatusId' = Null
    /\ formStatusId' = Null
    /\ last' = "none"
    /\ taskTypes' = defaultTaskTypes
    /\ showEditTypesModal' = FALSE
    /\ UNCHANGED << storedTaskTypes, kanbanBoard, calVars, nextTaskId, nextColumnId, columnOps >>

\* ngOnInit(): loadTaskTypes(), initializeBoard(), then
\* loadFromLocalStorage(), whose JSON.parse is not guarded: when it throws
\* the default columns stay and the error leaves ngOnInit
ngOnInit ==
    /\ ~initialized
    /\ initialized' = TRUE
    /\ taskTypes' = loadTaskTypes(taskTypes, storedTaskTypes)
    /\ columns' = loadFromLocalStorage(defaultColumns, kanbanBoard)
    /\ last' = IF ItemTruthy(kanbanBoard) /\ ParseThrows(kanbanBoard)
               THEN "ngOnInit threw" ELSE "ngOnInit"
    /\ UNCHANGED << showEditTypesModal, storedTaskTypes, showTaskModal, currentColumn,
                    editingTask, selectedStatusId, formStatusId, kanbanBoard, calVars,
                    nextTaskId, nextColumnId, columnOps >>

\* The column list after drop(event)
DropResult(cols, p, c, previousIndex, currentIndex) ==
    IF p = c
    THEN [cols EXCEPT ![c].tasks = moveItemInArray(cols[c].tasks, previousIndex, currentIndex)]
    ELSE LET r == transferArrayItem(cols[p].tasks, cols[c].tasks, previousIndex, currentIndex)
         IN  [cols EXCEPT ![p].tasks = r.source, ![c].tasks = r.target]

\* drop(event): the task at previousIndex of column p is dropped at
\* currentIndex of column c
drop(p, c, previousIndex, currentIndex) ==
    /\ initialized
    /\ columns' = DropResult(columns, p, c, previousIndex, currentIndex)
    /\ kanbanBoard' = saveToLocalStorage(columns', kanbanBoard)
    /\ last' = "drop"
    /\ UNCHANGED << typeVars, initialized, showTaskModal, currentColumn, editingTask,
                    selectedStatusId, formStatusId, calVars, nextTaskId, nextColumnId, columnOps >>

\* openNewTaskModal(column)
openNewTaskModal(c) ==
    /\ initialized
    /\ currentColumn' = columns[c].id
    /\ editingTask' = Null
    /\ selectedStatusId' = columns[c].id
    /\ formStatusId' = columns[c].id
    /\ showTaskModal' = TRUE
    /\ last' = "none"
    /\ UNCHANGED << typeVars, initialized, columns, kanbanBoard, calVars, nextTaskId, nextColumnId, columnOps >>

\* openAddNewModal()
openAddNewModal ==
    /\ initialized
    /\ currentColumn' = Null
    /\ editingTask' = Null
    /\ selectedStatusId' = (IF Len(columns) > 0 THEN columns[1].id ELSE Null)
    /\ formStatusId' = selectedStatusId'
    /\ showTaskModal' = TRUE
    /\ last' = "none"
    /\ UNCHANGED << typeVars, initialized, columns, kanbanBoard, calVars, nextTaskId, nextColumnId, columnOps >>

\* editTask(task, column): the task at 0-based index i of column c
editTask(c, i) ==
    /\ initialized
    /\ editingTask' = columns[c].tasks[i + 1].id
    /\ currentColumn' = columns[c].id
    /\ selectedStatusId' = columns[c].id
    /\ formStatusId' = columns[c].id
    /\ showTaskModal' = TRUE
    /\ last' = "none"
    /\ UNCHANGED << typeVars, initialized, columns, kanbanBoard, calVars, nextTaskId, nextColumnId, columnOps >>

\* closeTaskModal(): the new values of the modal's fields
ModalClosed ==
    /\ showTaskModal' = FALSE
    /\ editingTask' = Null
    /\ currentColumn' = Null
    /\ formStatusId' = Null
    /\ selectedStatusId' = Null

\* closeTaskModal() called by the user
closeTaskModal ==
    /\ initialized
    /\ showTaskModal
    /\ ModalClosed
    /\ last' = "none"
    /\ UNCHANGED << typeVars, initialized, columns, kanbanBoard, calVars, nextTaskId, nextColumnId, columnOps >>

\* saveTask's destinationColumnId:
\* this.currentColumn?.id ?? v.statusId ?? this.selectedStatusId ?? this.columns[0]?.id
DestinationColumnId(cols, cur, statusId, selected) ==
    Coalesce(cur, Coalesce(statusId, Coalesce(selected,
        IF Len(cols) > 0 THEN cols[1].id ELSE Null)))

\* The mutant of DestinationColumn: the fallback is the last column, not the first
DestinationColumnFallsToLast(cols, destId) ==
    IF FindColumn(cols, destId) # 0 THEN FindColumn(cols, destId)
    ELSE Len(cols)

\* saveTask's destinationColumn: the column found by id, else this.columns[0];
\* a 1-based position, 0 for undefined
DestinationColumn(cols, destId) ==
    IF FindColumn(cols, destId) # 0 THEN FindColumn(cols, destId)
    ELSE IF Len(cols) > 0 THEN 1 ELSE 0

\* The mutant of MoveEdited: the task is pushed to the destination and
\* not spliced out of its original column
MoveEditedKeepsOriginal(cols, taskId, orig, dest) ==
    IF orig # 0 /\ dest # 0 /\ cols[dest].id # cols[orig].id
       /\ IndexOfId(cols[orig].tasks, taskId) > -1
    THEN LET fromIndex == IndexOfId(cols[orig].tasks, taskId)
         IN  [cols EXCEPT ![dest].tasks = Append(@, cols[orig].tasks[fromIndex + 1])]
    ELSE cols

\* The mutant of MoveEdited: a task that no column holds is pushed to the
\* destination column
MoveEditedReinserts(cols, taskId, orig, dest) ==
    IF orig = 0 /\ dest # 0
    THEN [cols EXCEPT ![dest].tasks = Append(@, [id |-> taskId])]
    ELSE IF orig # 0 /\ dest # 0 /\ cols[dest].id # cols[orig].id
            /\ IndexOfId(cols[orig].tasks, taskId) > -1
    THEN LET fromIndex == IndexOfId(cols[orig].tasks, taskId)
         IN  [cols EXCEPT ![orig].tasks = RemoveAt(@, fromIndex),
                          ![dest].tasks = Append(@, cols[orig].tasks[fromIndex + 1])]
    ELSE cols

\* saveTask, edit branch, "Move task to new column if status changed":
\* orig and dest are the positions of originalColumn and destinationColumn
MoveEdited(cols, taskId, orig, dest) ==
    IF orig # 0 /\ dest # 0 /\ cols[dest].id # cols[orig].id
       /\ IndexOfId(cols[orig].tasks, taskId) > -1
    THEN LET fromIndex == IndexOfId(cols[orig].tasks, taskId)
         IN  [cols EXCEPT ![orig].tasks = RemoveAt(@, fromIndex),
                          ![dest].tasks = Append(@, cols[orig].tasks[fromIndex + 1])]
    ELSE cols

\* The mutant of saveTaskInvalid: the modal is closed as after a save
saveTaskInvalidCloses ==
    /\ initialized
    /\ last' = "saveTask invalid"
    /\ showTaskModal' = FALSE
    /\ editingTask' = Null
    /\ currentColumn' = Null
    /\ UNCHANGED << typeVars, initialized, columns, selectedStatusId, formStatusId,
                    kanbanBoard, calVars, nextTaskId, nextColumnId, columnOps >>

\* saveTask() with an invalid form: the controls are marked as touched and
\* the handler returns
saveTaskInvalid ==
    /\ initialized
    /\ last' = "saveTask invalid"
    /\ UNCHANGED << typeVars, appVars, kanbanBoard, calVars, nextTaskId, nextColumnId, columnOps >>

\* saveTask() with a valid form, this.editingTask set: v is the form's
\* value, statusId its statusId
saveTaskEdit(v, statusId) ==
    /\ initialized
    /\ showTaskModal
    /\ editingTask # Null
    /\ LET destId == DestinationColumnId(columns, currentColumn, statusId, selectedStatusId)
           dest   == DestinationColumn(columns, destId)
           orig   == FindHolder(columns, editingTask)
       IN  /\ columns' = MoveEdited(AssignInColumns(columns, editingTask, v), editingTask, orig, dest)
           /\ last' = IF orig = 0 THEN "saveTask edit detached" ELSE "saveTask edit"
    /\ kanbanBoard' = saveToLocalStorage(columns', kanbanBoard)
    /\ ModalClosed
    /\ UNCHANGED << typeVars, initialized, calVars, nextTaskId, nextColumnId, columnOps >>

\* saveTask() with a valid form, this.editingTask null: a new task is
\* pushed to destinationColumn; with no column at all destinationColumn is
\* undefined and `destinationColumn.tasks` throws a TypeError
saveTaskCreate(v, statusId) ==
    /\ initialized
    /\ showTaskModal
    /\ editingTask = Null
    /\ LET destId == DestinationColumnId(columns, currentColumn, statusId, selectedStatusId)
           dest   == DestinationColumn(columns, destId)
       IN  IF dest = 0
           THEN /\ last' = "saveTask threw"
                /\ UNCHANGED << appVars, kanbanBoard, nextTaskId >>
           ELSE /\ nextTaskId < MaxTasks
                /\ nextTaskId' = nextTaskId + 1
                /\ columns' = [columns EXCEPT ![dest].tasks =
                                  Append(@, NewTask(TaskUUID(nextTaskId'), v))]
                /\ kanbanBoard' = saveToLocalStorage(columns', kanbanBoard)
                /\ ModalClosed
                /\ last' = IF FindColumn(columns, destId) = 0
                           THEN "saveTask create fallback" ELSE "saveTask create"
                /\ UNCHANGED initialized
    /\ UNCHANGED << typeVars, calVars, nextColumnId, columnOps >>

\* deleteTask(column, task): the task at 0-based index i of column c
deleteTask(c, i) ==
    /\ initialized
    /\ LET index == IndexOfId(columns[c].tasks, columns[c].tasks[i + 1].id)
       IN  IF index > -1
           THEN /\ columns' = [columns EXCEPT ![c].tasks = RemoveAt(@, index)]
                /\ kanbanBoard' = saveToLocalStorage(columns', kanbanBoard)
           ELSE UNCHANGED << columns, kanbanBoard >>
    /\ last' = "deleteTask"
    /\ UNCHANGED << typeVars, initialized, showTaskModal, currentColumn, editingTask,
                    selectedStatusId, formStatusId, calVars, nextTaskId, nextColumnId, columnOps >>

\* openNewColumnModal(): the user answers the prompt with `title`
\* ("" stands for a cancelled or blank answer)
openNewColumnModal(title) ==
    /\ initialized
    /\ IF title # ""
       THEN /\ columnOps < MaxColumnOps
            /\ columnOps' = columnOps + 1
            /\ nextColumnId' = nextColumnId + 1
            /\ columns' = Append(columns, [id |-> ColumnUUID(nextColumnId'),
                                           title |-> title, tasks |-> << >>])
            /\ kanbanBoard' = saveToLocalStorage(columns', kanbanBoard)
       ELSE UNCHANGED << columns, kanbanBoard, nextColumnId, columnOps >>
    /\ last' = IF title # "" THEN "openNewColumnModal" ELSE "none"
    /\ UNCHANGED << typeVars, initialized, showTaskModal, currentColumn, editingTask,
                    selectedStatusId, formStatusId, calVars, nextTaskId >>

\* deleteColumn(column): the column at position c
deleteColumn(c) ==
    /\ initialized
    /\ columnOps < MaxColumnOps
    /\ columnOps' = columnOps + 1
    /\ columns' = RemoveAt(columns, c - 1)
    /\ kanbanBoard' = saveToLocalStorage(columns', kanbanBoard)
    /\ last' = "deleteColumn"
    /\ UNCHANGED << typeVars, initialized, showTaskModal, currentColumn, editingTask,
                    selectedStatusId, formStatusId, calVars, nextTaskId, nextColumnId >>

\* updateColumnTitle(column, e): the element's trimmed text is `title`
updateColumnTitle(c, title) ==
    /\ initialized
    /\ columnOps < MaxColumnOps
    /\ columnOps' = columnOps + 1
    /\ columns' = [columns EXCEPT ![c].title = title]
    /\ kanbanBoard' = saveToLocalStorage(columns', kanbanBoard)
    /\ last' = "updateColumnTitle"
    /\ UNCHANGED << typeVars, initialized, showTaskModal, currentColumn, editingTask,
                    selectedStatusId, formStatusId, calVars, nextTaskId, nextColumnId >>

\* The statusId a valid form can hold: the one set when the modal opened,
\* or a column the user picks
StatusIds == { formStatusId } \cup ColumnIds(columns)

Positions == 1..Len(columns)

Next ==
    \/ Construct
    \/ ngOnInit
    \/ \E p \in Positions, c \in Positions :
         \E previousIndex \in 0..(Len(columns[p].tasks) - 1),
            currentIndex \in 0..(Len(columns[c].tasks) + 1) :
              drop(p, c, previousIndex, currentIndex)
    \/ \E c \in Positions : openNewTaskModal(c)
    \/ openAddNewModal
    \/ \E c \in Positions : \E i \in 0..(Len(columns[c].tasks) - 1) : editTask(c, i)
    \/ closeTaskModal
    \/ saveTaskInvalid
    \/ \E v \in FormValues, statusId \in StatusIds : saveTaskEdit(v, statusId)
    \/ \E v \in FormValues, statusId \in StatusIds : saveTaskCreate(v, statusId)
    \/ \E c \in Positions : \E i \in 0..(Len(columns[c].tasks) - 1) : deleteTask(c, i)
    \/ \E title \in Titles \cup {""} : openNewColumnModal(title)
    \/ \E c \in Positions : deleteColumn(c)
    \/ \E c \in Positions : \E title \in Titles \cup {columns[c].title} : updateColumnTitle(c, title)

\* The calendar's modal fields as their initializers leave them, and no
\* edit made yet
CalendarModalClosed ==
    /\ showCalendarModal = FALSE
    /\ modalDayIndex = 0
    /\ editingIndex = NoIndex
    /\ localEdits = NoEdits

\* The state after `new AppComponent(...)` in a browser that has never run
\* the application; the calendar is not shown
Init ==
    /\ initialized = FALSE
    /\ columns = << >>
    /\ showTaskModal = FALSE
    /\ currentColumn = Null
    /\ editingTask = Null
    /\ selectedStatusId = Null
    /\ formStatusId = Null
    /\ kanbanBoard = NoItem
    /\ calendarFile = "part_000"
    /\ tzOffset = 0
    /\ weekStart = 0
    /\ dayTasks = [i \in 0..6 |-> << >>]
    /\ pendingRefresh = 0
    /\ drops = 0
    /\ lastDrop = NoDrop
    /\ needsRefresh = FALSE
    /\ CalendarModalClosed
    /\ taskTypes = defaultTaskTypes
    /\ showEditTypesModal = FALSE
    /\ storedTaskTypes = NoItem
    /\ nextTaskId = 0
    /\ nextColumnId = 0
    /\ columnOps = 0
    /\ last = "none"

Spec == Init /\ [][Next]_vars

\* The values of 'kanbanBoard' a session may find at startup besides no
\* item: the board an earlier session stored after deleting every column,
\* and a text that is not JSON
StartupBoards == { Stringify(<< >>), Malformed }

\* The state after `new AppComponent(...)` in a browser whose storage holds
\* one of StartupBoards and a 'taskTypes' item that is not JSON
InitStored ==
    /\ initialized = FALSE
    /\ columns = << >>
    /\ showTaskModal = FALSE
    /\ currentColumn = Null
    /\ editingTask = Null
    /\ selectedStatusId = Null
    /\ formStatusId = Null
    /\ kanbanBoard \in StartupBoards
    /\ calendarFile = "part_000"
    /\ tzOffset = 0
    /\ weekStart = 0
    /\ dayTasks = [i \in 0..6 |-> << >>]
    /\ pendingRefresh = 0
    /\ drops = 0
    /\ lastDrop = NoDrop
    /\ needsRefresh = FALSE
    /\ CalendarModalClosed
    /\ taskTypes = defaultTaskTypes
    /\ showEditTypesModal = FALSE
    /\ storedTaskTypes = Malformed
    /\ nextTaskId = 0
    /\ nextColumnId = 0
    /\ columnOps = 0
    /\ last = "none"

SpecStored == InitStored /\ [][Next]_vars

-----------------------------------------------------------------------------
(* The board: claims *)

\* The handlers of AppComponent that change the Board Model
BoardMutations ==
    { "drop", "saveTask edit", "saveTask edit detached", "saveTask create",
      "saveTask create fallback",
      "deleteTask", "openNewColumnModal", "deleteColumn", "updateColumnTitle" }

\* The tasks of all columns with their multiplicities
TaskBag(cols) ==
    LET where == { << i, j >> \in (1..Len(cols)) \X (1..MaxTasks + 1) : j <= Len(cols[i].tasks) }
        all   == { cols[w[1]].tasks[w[2]] : w \in where }
    IN  [t \in all |-> Cardinality({ w \in where : cols[w[1]].tasks[w[2]] = t })]

\* The number of places (column, index) where a task with this id sits
Occurrences(cols, taskId) ==
    Cardinality({ w \in (1..Len(cols)) \X (1..MaxTasks + 1) :
                    /\ w[2] <= Len(cols[w[1]].tasks)
                    /\ cols[w[1]].tasks[w[2]].id = taskId })

BoardTaskIds(cols) ==
    UNION { { cols[i].tasks[j].id : j \in 1..Len(cols[i].tasks) } : i \in 1..Len(cols) }

\* C1: every drop (a reorder within a column or a transfer between two
\* columns) leaves the multiset of the tasks of all columns as it was: no
\* task is created, duplicated or lost.
C1_DropKeepsTaskBag ==
    [][last' = "drop" => TaskBag(columns') = TaskBag(columns)]_vars

\* A drop has just put the two tasks of the board into one column
C1_Witness ==
    /\ last = "drop"
    /\ \E c \in 1..Len(columns) : Len(columns[c].tasks) = 2

\* C2: in every reachable board state each task of the board sits in exactly
\* one column and occurs there exactly once.
C2_TaskInExactlyOneColumn ==
    \A id \in BoardTaskIds(columns) : Occurrences(columns, id) = 1

\* saveTask has just committed an edit on a board that holds two tasks
\* and has had a column added or deleted
C2_Witness ==
    /\ last = "saveTask edit"
    /\ Cardinality(BoardTaskIds(columns)) = 2
    /\ columnOps = 1
    /\ Len(columns) # 4

\* C3: right after each completed mutation of the board the item
\* 'kanbanBoard' is the serialization of the whole in-memory column list.
C3_StorageEqualsMemoryAfterMutation ==
    last \in BoardMutations => kanbanBoard = Stringify(columns)

\* deleteTask has just removed one of two tasks and the stored board shows it
C3_Witness ==
    /\ last = "deleteTask"
    /\ nextTaskId = 2
    /\ Cardinality(BoardTaskIds(columns)) = 1
    /\ kanbanBoard = Stringify(columns)

\* C4 (as claimed): when saveTask commits an edit and the submitted statusId
\* names a column other than the one that holds the task, the task leaves
\* the old column and becomes the last task of the named column.
C4_EditMovesToNamedColumn ==
    [][\A v \in FormValues, statusId \in StatusIds :
         LET orig == FindHolder(columns, editingTask)
         IN  ( /\ saveTaskEdit(v, statusId)
               /\ orig # 0
               /\ statusId \in ColumnIds(columns)
               /\ statusId # columns[orig].id )
             => LET named == FindColumn(columns', statusId)
                IN  /\ named # 0
                    /\ Len(columns'[named].tasks) > 0
                    /\ columns'[named].tasks[Len(columns'[named].tasks)].id = editingTask
                    /\ IndexOfId(columns'[orig].tasks, editingTask) = -1
      ]_vars

\* C10: when saveTask creates a task and its destination column id matches
\* no column of the board, the new task is the last task of the first column.
C10_UnknownDestinationFallsToFirstColumn ==
    last = "saveTask create fallback" =>
        /\ Len(columns) > 0
        /\ Len(columns[1].tasks) > 0
        /\ columns[1].tasks[Len(columns[1].tasks)].id = TaskUUID(nextTaskId)
        /\ Occurrences(columns, TaskUUID(nextTaskId)) = 1

\* The new-task modal was opened on column 'new', the column was deleted,
\* and the task then saved went to 'scheduled', now the first column
C10_Witness ==
    /\ last = "saveTask create fallback"
    /\ Len(columns) = 3
    /\ columns[1].id = "scheduled"
    /\ Len(columns[1].tasks) > 0

\* C11 (as claimed): in every reachable board state, a board without
\* columns included, saveTask with a valid form completes: it never raises.
C11_SaveTaskNeverRaises ==
    last # "saveTask threw"

\* The task lists of the columns, in board order
TaskLists(cols) == [c \in 1..Len(cols) |-> cols[c].tasks]

\* C12: when saveTask commits an edit of a task that no column holds any
\* more, it completes (the modal is closed and the board stored) and the
\* task lists of all columns are what they were before the call.
C12_DetachedEditIsNoOp ==
    [][last' = "saveTask edit detached"
         => /\ TaskLists(columns') = TaskLists(columns)
            /\ ~showTaskModal' /\ editingTask' = Null
            /\ kanbanBoard' = Stringify(columns')]_vars

\* saveTask has just committed the edit of a task whose column was deleted
\* while the modal was open; the board still holds another task
C12_Witness ==
    /\ last = "saveTask edit detached"
    /\ Len(columns) = 3
    /\ nextTaskId = 2
    /\ Cardinality(BoardTaskIds(columns)) = 1

\* C13 (as claimed): startup with a 'kanbanBoard' or 'taskTypes' item that
\* is not JSON never raises out of ngOnInit, the catalog keeps its ten
\* built-in types and the board the columns of initializeBoard.
C13_MalformedStartupIsCaught ==
    /\ last # "ngOnInit threw"
    /\ (initialized /\ storedTaskTypes = Malformed) => taskTypes = defaultTaskTypes
    /\ (initialized /\ kanbanBoard = Malformed) => columns = defaultColumns

C23_InvalidSaveChangesNothing ==
    [][last' = "saveTask invalid" =>
         /\ columns' = columns
         /\ kanbanBoard' = kanbanBoard
         /\ showTaskModal' = showTaskModal
         /\ editingTask' = editingTask
         /\ currentColumn' = currentColumn
         /\ selectedStatusId' = selectedStatusId
         /\ formStatusId' = formStatusId]_vars

\* saveTask has returned from its invalid-form guard while a task of the
\* board was being edited in the open modal
C23_Witness ==
    /\ last = "saveTask invalid"
    /\ showTaskModal
    /\ editingTask # Null
    /\ currentColumn # Null
    /\ editingTask \in BoardTaskIds(columns)
    /\ ItemTruthy(kanbanBoard)

-----------------------------------------------------------------------------
(* AppComponent: the handlers of the task type catalog *)

\* openEditTypesModal()
openEditTypesModal ==
    /\ initialized
    /\ showEditTypesModal' = TRUE
    /\ last' = "none"
    /\ UNCHANGED << taskTypes, storedTaskTypes, appVars, kanbanBoard, calVars,
                    nextTaskId, nextColumnId, columnOps >>

\* closeEditTypesModal()
closeEditTypesModal ==
    /\ initialized
    /\ showEditTypesModal' = FALSE
    /\ last' = "closeEditTypesModal"
    /\ UNCHANGED << taskTypes, storedTaskTypes, appVars, kanbanBoard, calVars,
                    nextTaskId, nextColumnId, columnOps >>

\* toggleTypeForTasks(type), type being the entry at position n
toggleTypeForTasks(n) ==
    /\ initialized
    /\ taskTypes' = [taskTypes EXCEPT ![n] = ToggledForTasks(@)]
    /\ last' = "toggleTypeForTasks"
    /\ UNCHANGED << showEditTypesModal, storedTaskTypes, appVars, kanbanBoard, calVars,
                    nextTaskId, nextColumnId, columnOps >>

\* toggleTypeForEvents(type), type being the entry at position n
toggleTypeForEvents(n) ==
    /\ initialized
    /\ taskTypes' = [taskTypes EXCEPT ![n].forEvents = ~@]
    /\ last' = "toggleTypeForEvents"
    /\ UNCHANGED << showEditTypesModal, storedTaskTypes, appVars, kanbanBoard, calVars,
                    nextTaskId, nextColumnId, columnOps >>

\* updateTypeName(type, newName), type being the entry at position n
updateTypeName(n, newName) ==
    /\ initialized
    /\ taskTypes' = [taskTypes EXCEPT ![n].name = Trim(newName)]
    /\ last' = "updateTypeName"
    /\ UNCHANGED << showEditTypesModal, storedTaskTypes, appVars, kanbanBoard, calVars,
                    nextTaskId, nextColumnId, columnOps >>

\* saveTaskTypes(): the whole catalog is written, then closeEditTypesModal()
saveTaskTypes ==
    /\ initialized
    /\ storedTaskTypes' = StringifyTypes(taskTypes)
    /\ showEditTypesModal' = FALSE
    /\ last' = "saveTaskTypes"
    /\ UNCHANGED << taskTypes, appVars, kanbanBoard, calVars,
                    nextTaskId, nextColumnId, columnOps >>

\* The positions of the entries the user edits: 'operational' and 'meeting'
EditedTypes == { 1, 6 }

\* The names the user types
NewNames == { " Ops ", "Calls " }

NextCatalog ==
    \/ Construct
    \/ ngOnInit
    \/ openEditTypesModal
    \/ closeEditTypesModal
    \/ \E n \in EditedTypes : toggleTypeForTasks(n)
    \/ \E n \in EditedTypes : toggleTypeForEvents(n)
    \/ \E n \in EditedTypes : \E newName \in NewNames : updateTypeName(n, newName)
    \/ saveTaskTypes

\* The state after `new AppComponent(...)`; 'taskTypes' was never written
\* or holds a text that is not JSON
InitCatalog ==
    /\ initialized = FALSE
    /\ columns = << >>
    /\ showTaskModal = FALSE
    /\ currentColumn = Null
    /\ editingTask = Null
    /\ selectedStatusId = Null
    /\ formStatusId = Null
    /\ kanbanBoard = NoItem
    /\ calendarFile = "part_000"
    /\ tzOffset = 0
    /\ weekStart = 0
    /\ dayTasks = [i \in 0..6 |-> << >>]
    /\ pendingRefresh = 0
    /\ drops = 0
    /\ lastDrop = NoDrop
    /\ needsRefresh = FALSE
    /\ CalendarModalClosed
    /\ taskTypes = defaultTaskTypes
    /\ showEditTypesModal = FALSE
    /\ storedTaskTypes \in { NoItem, Malformed }
    /\ nextTaskId = 0
    /\ nextColumnId = 0
    /\ columnOps = 0
    /\ last = "none"

SpecCatalog == InitCatalog /\ [][NextCatalog]_vars

-----------------------------------------------------------------------------
(* The task type catalog: claims *)

\* Type ids that are absent (a missing or empty field) or name no entry
UnknownTypeIds == { Null, "", "retired" }

\* The catalog's entry 'operational'
OperationalEntry == taskTypes[FindType(taskTypes, "operational")]

\* C14 (as claimed): in every catalog state every lookup of an absent or
\* unknown type id returns the data of the default type 'operational':
\* all lookups return the name and color of the catalog's entry
\* 'operational', or all return the built-in 'Operational' and '#2f6fec'.
C14_UnknownTypeResolvesToOperational ==
    initialized =>
        \/ \A u \in UnknownTypeIds :
              /\ getTaskTypeName(taskTypes, u) = OperationalEntry.name
              /\ getTaskTypeColor(taskTypes, u) = OperationalEntry.color
              /\ getSelectedTaskType(taskTypes, u) = OperationalEntry
              /\ u # Null => getTypeName(u) = OperationalEntry.name
              /\ u # Null => getTypeColor(u) = OperationalEntry.color
        \/ \A u \in UnknownTypeIds :
              /\ getTaskTypeName(taskTypes, u) = "Operational"
              /\ getTaskTypeColor(taskTypes, u) = "#2f6fec"
              /\ getSelectedTaskType(taskTypes, u).name = "Operational"
              /\ getSelectedTaskType(taskTypes, u).color = "#2f6fec"
              /\ u # Null => getTypeName(u) = "Operational"
              /\ u # Null => getTypeColor(u) = "#2f6fec"

\* C15 (as claimed): for every id of the catalog the lookups of the board
\* and of the calendar return that entry's current name and color.
C15_KnownTypeResolvesToItsEntry ==
    initialized =>
        \A n \in 1..Len(taskTypes) :
            /\ getTaskTypeName(taskTypes, taskTypes[n].id) = taskTypes[n].name
            /\ getTaskTypeColor(taskTypes, taskTypes[n].id) = taskTypes[n].color
            /\ getSelectedTaskType(taskTypes, taskTypes[n].id) = taskTypes[n]
            /\ getTypeName(taskTypes[n].id) = taskTypes[n].name
            /\ getTypeColor(taskTypes[n].id) = taskTypes[n].color

\* C16: a toggleTypeForTasks that turns forTasks on leaves enabled true, one
\* that turns it off leaves enabled as it was, no other entry changes, and
\* toggleTypeForEvents changes no entry's enabled or forTasks.
C16_ForTasksOnEnables ==
    [][ /\ last' = "toggleTypeForTasks" =>
            \A n \in 1..Len(taskTypes) :
                /\ (~taskTypes[n].forTasks /\ taskTypes'[n].forTasks) => taskTypes'[n].enabled
                /\ (taskTypes[n].forTasks /\ ~taskTypes'[n].forTasks)
                      => taskTypes'[n].enabled = taskTypes[n].enabled
                /\ taskTypes'[n].forTasks = taskTypes[n].forTasks => taskTypes'[n] = taskTypes[n]
        /\ last' = "toggleTypeForEvents" =>
            \A n \in 1..Len(taskTypes) :
                /\ taskTypes'[n].enabled = taskTypes[n].enabled
                /\ taskTypes'[n].forTasks = taskTypes[n].forTasks ]_vars

\* toggleTypeForTasks has just turned 'meeting', disabled by default, on for tasks
C16_Witness ==
    /\ last = "toggleTypeForTasks"
    /\ taskTypes[6].id = "meeting"
    /\ taskTypes[6].forTasks
    /\ taskTypes[6].enabled

\* C17: the item 'taskTypes' changes only in saveTaskTypes, which leaves it
\* holding the whole in-memory catalog; the toggles, updateTypeName and
\* closeEditTypesModal leave it as it was.
C17_CatalogStoredOnlyBySave ==
    [][ /\ storedTaskTypes' # storedTaskTypes => last' = "saveTaskTypes"
        /\ last' = "saveTaskTypes" =>
               /\ storedTaskTypes'.k = "json"
               /\ storedTaskTypes'.doc = taskTypes
               /\ taskTypes' = taskTypes
        /\ last' \in {"toggleTypeForTasks", "toggleTypeForEvents", "updateTypeName",
                       "closeEditTypesModal"}
               => storedTaskTypes' = storedTaskTypes ]_vars

\* saveTaskTypes has just stored a catalog in which 'operational' is
\* renamed and turned off for tasks
C17_Witness ==
    /\ last = "saveTaskTypes"
    /\ storedTaskTypes.k = "json"
    /\ storedTaskTypes.doc = taskTypes
    /\ taskTypes[1].name = "Ops"
    /\ ~taskTypes[1].forTasks

-----------------------------------------------------------------------------
(* CalendarComponent: the handlers *)

\* part_000, onDrop: the lists after the splices and the dayIndex updates
\* (source i, target j, the dragged task at previousIndex of the source)
DropLists000(days, i, j, previousIndex, currentIndex) ==
    LET sourceList        == days[i]
        targetList        == days[j]
        draggedTask       == sourceList[previousIndex + 1]
        actualSourceIndex == IndexOfId(sourceList, draggedTask.id)
        actualTargetIndex == Max(0, Min(currentIndex, Len(targetList)))
    IN  IF i = j
        THEN [days EXCEPT ![j] =
                SetDayIndex(InsertAt(RemoveAt(sourceList, actualSourceIndex),
                                     actualTargetIndex, draggedTask), j + 1)]
        ELSE [days EXCEPT ![i] = SetDayIndex(RemoveAt(sourceList, actualSourceIndex), i),
                          ![j] = SetDayIndex(InsertAt(targetList, actualTargetIndex,
                                                      draggedTask), j + 1)]

\* part_001, onDrop: the lists after moveItemInArray / transferArrayItem
\* and the dayIndex updates
DropLists001(days, i, j, previousIndex, currentIndex) ==
    IF i = j
    THEN [days EXCEPT ![j] =
            SetDayIndex(moveItemInArray(days[j], previousIndex, currentIndex), j)]
    ELSE LET r == transferArrayItem(days[i], days[j], previousIndex, currentIndex)
         IN  [days EXCEPT ![i] = SetDayIndex(r.source, i),
                          ![j] = SetDayIndex(r.target, j)]

\* part_000, onDrop(event, targetDayIndex): the task at previousIndex of day
\* list i is dropped at currentIndex of day list j; targetDayIndex is j
onDrop000(i, j, previousIndex, currentIndex) ==
    /\ calendarFile = "part_000"
    /\ drops < MaxDrops
    /\ drops' = drops + 1
    /\ LET draggedTask == dayTasks[i][previousIndex + 1]
           oldDayIndex == draggedTask.dayIndex
           writes      == oldDayIndex # j + 1
           item        == IF writes
                          THEN updateKanbanTaskDate("part_000", kanbanBoard, weekStart,
                                                    draggedTask.id, j + 1)
                          ELSE kanbanBoard
       IN  /\ dayTasks' = DropLists000(dayTasks, i, j, previousIndex, currentIndex)
           /\ kanbanBoard' = item
           /\ IF writes
              THEN /\ pendingRefresh < MaxPending
                   /\ pendingRefresh' = pendingRefresh + 1
              ELSE UNCHANGED pendingRefresh
           /\ lastDrop' = [id |-> draggedTask.id, source |-> i, target |-> j,
                           wrote |-> writes /\ Has(StoredTask(kanbanBoard, draggedTask.id), "id"),
                           written |-> NewDateISO(weekStart, j + 1),
                           before |-> StoredTask(kanbanBoard, draggedTask.id)]
           /\ needsRefresh' = (needsRefresh \/ lastDrop'.wrote)
    /\ last' = "onDrop"
    /\ UNCHANGED << typeVars, appVars, modalVars, localEdits, calendarFile, tzOffset, weekStart, nextTaskId,
                    nextColumnId, columnOps >>

\* part_001, onDrop(event, targetDayIndex)
onDrop001(i, j, previousIndex, currentIndex) ==
    /\ calendarFile = "part_001"
    /\ drops < MaxDrops
    /\ drops' = drops + 1
    /\ LET droppedTask == dayTasks[i][previousIndex + 1]
           oldDayIndex == droppedTask.dayIndex
           writes      == oldDayIndex # j
           item        == IF writes
                          THEN updateKanbanTaskDate("part_001", kanbanBoard, weekStart,
                                                    droppedTask.id, j)
                          ELSE kanbanBoard
       IN  /\ dayTasks' = DropLists001(dayTasks, i, j, previousIndex, currentIndex)
           /\ kanbanBoard' = item
           /\ lastDrop' = [id |-> droppedTask.id, source |-> i, target |-> j,
                           wrote |-> writes /\ Has(StoredTask(kanbanBoard, droppedTask.id), "id"),
                           written |-> NewDateISO(weekStart, j),
                           before |-> StoredTask(kanbanBoard, droppedTask.id)]
           /\ needsRefresh' = (needsRefresh \/ lastDrop'.wrote)
    /\ last' = "onDrop"
    /\ UNCHANGED << typeVars, appVars, modalVars, localEdits, calendarFile, tzOffset, weekStart, pendingRefresh,
                    nextTaskId, nextColumnId, columnOps >>

\* part_000, the callback onDrop passes to setTimeout: refreshCalendarFromStorage()
deferredRefresh ==
    /\ pendingRefresh > 0
    /\ pendingRefresh' = pendingRefresh - 1
    /\ dayTasks' = refreshCalendarFromStorage(kanbanBoard, weekStart)
    /\ needsRefresh' = FALSE
    /\ last' = "deferredRefresh"
    /\ localEdits' = [localEdits EXCEPT !.pending = {}, !.discarded = localEdits.pending]
    /\ UNCHANGED << typeVars, appVars, modalVars, kanbanBoard, calendarFile, tzOffset, weekStart, drops,
                    lastDrop, nextTaskId, nextColumnId, columnOps >>

\* setWeek(date)
setWeek(date) ==
    /\ weekStart' = getStartOfWeek(date, tzOffset)
    /\ weekStart' >= 0 - MaxWeekNav * 7 * DayLen - DayLen
    /\ weekStart' <= MaxWeekNav * 7 * DayLen + DayLen
    /\ dayTasks' = refreshCalendarFromStorage(kanbanBoard, weekStart')
    /\ needsRefresh' = FALSE
    /\ last' = "setWeek"
    /\ localEdits' = [localEdits EXCEPT !.pending = {}, !.discarded = localEdits.pending]
    /\ UNCHANGED << typeVars, appVars, modalVars, kanbanBoard, calendarFile, tzOffset, pendingRefresh, drops,
                    lastDrop, nextTaskId, nextColumnId, columnOps >>

\* prevWeek()
prevWeek == setWeek(AddDays(weekStart, -7))

\* nextWeek()
nextWeek == setWeek(AddDays(weekStart, 7))

\* The instants `new Date()` returns: Wednesday 2024-06-05T12:00Z and
\* Sunday 2024-06-09T22:00Z (already Monday in UTC+05:30)
Nows == { 2 * DayLen + 720, 6 * DayLen + 1320 }

\* today(), called at instant now
today(now) == setWeek(now)

\* selectDate(d): d is a cell of the month grid, the local midnight of local day n
selectDate(n) == setWeek(n * DayLen - tzOffset)

\* The local days of the month grid the user picks from
PickedDays == { -3, 8 }

\* The stored tasks of the calendar's initial boards: two tasks as the
\* task form saves them (scheduleDate null, scheduleDate set), and three as
\* another writer of the item may have left them (the code reads every
\* field defensively): no scheduleDate key, no date at all, a dueDate that
\* is no date
FormSavedUnscheduled ==
    NewTask("task-1",
            [title |-> "Alpha", description |-> "the first task", priority |-> "medium",
             dueDate |-> DateStr(0), assignee |-> "", estimatedTimeHours |-> 0,
             scheduleDate |-> NullV, type |-> "operational"])

FormSavedScheduled ==
    NewTask("task-2",
            [title |-> "Beta", description |-> "the second task", priority |-> "high",
             dueDate |-> DateStr(9), assignee |-> "Me", estimatedTimeHours |-> 2,
             scheduleDate |-> DateStr(2), type |-> "technical"])

DueOnly == [id |-> "task-3", title |-> "Gamma", dueDate |-> DateStr(7)]

Undated == [id |-> "task-4", title |-> "Delta"]

Unparseable == [id |-> "task-5", title |-> "Epsilon", dueDate |-> InvalidV]

\* The values of 'kanbanBoard' the calendar starts from
StoredBoards ==
    { NoItem,
      Stringify([defaultColumns EXCEPT ![1].tasks = << FormSavedUnscheduled, DueOnly >>]),
      Stringify([defaultColumns EXCEPT ![1].tasks = << FormSavedScheduled >>,
                                       ![2].tasks = << Unparseable, Undated >>]) }

Days == 0..6

\* The day lists the user drops on where the drops are not the subject
DropTargets == { 3, 6 }

NextCalendar ==
    \/ \E i \in Days, j \in Days :
         \E previousIndex \in 0..(Len(dayTasks[i]) - 1),
            currentIndex \in 0..(Len(dayTasks[j]) + 1) :
              onDrop000(i, j, previousIndex, currentIndex)
    \/ \E i \in Days, j \in Days :
         \E previousIndex \in 0..(Len(dayTasks[i]) - 1),
            currentIndex \in 0..(Len(dayTasks[j]) + 1) :
              onDrop001(i, j, previousIndex, currentIndex)
    \/ deferredRefresh
    \/ prevWeek
    \/ nextWeek
    \/ \E now \in Nows : today(now)
    \/ \E n \in PickedDays : selectDate(n)

\* The state after `new CalendarComponent(...)` at instant now, in local
\* time zone tz, with 'kanbanBoard' as an earlier session left it; the
\* board component is not used
InitCalendar ==
    /\ initialized = FALSE
    /\ columns = << >>
    /\ showTaskModal = FALSE
    /\ currentColumn = Null
    /\ editingTask = Null
    /\ selectedStatusId = Null
    /\ formStatusId = Null
    /\ kanbanBoard \in StoredBoards
    /\ calendarFile \in CalendarFiles
    /\ tzOffset \in Offsets
    /\ \E now \in Nows :
         /\ weekStart = getStartOfWeek(now, tzOffset)
         /\ dayTasks = refreshCalendarFromStorage(kanbanBoard, weekStart)
    /\ pendingRefresh = 0
    /\ drops = 0
    /\ lastDrop = NoDrop
    /\ needsRefresh = FALSE
    /\ CalendarModalClosed
    /\ taskTypes = defaultTaskTypes
    /\ showEditTypesModal = FALSE
    /\ storedTaskTypes = NoItem
    /\ nextTaskId = 0
    /\ nextColumnId = 0
    /\ columnOps = 0
    /\ last = "constructor"

SpecCalendar == InitCalendar /\ [][NextCalendar]_vars

-----------------------------------------------------------------------------
(* CalendarComponent: the task modal and deleteTask *)

\* crypto.randomUUID() in the calendar: an id no stored task has
CalendarUUID(n) == "cal-" \o ToString(n)

\* Math.floor of a duration given in halves of a minute
Floor(halves) == halves \div 2

\* Math.max(1, Math.floor(this.formDuration))
DurationMinutes(halves) == Max(1, Floor(halves))

\* openAddTask(dayIndex)
openAddTask(dayIndex) ==
    /\ modalDayIndex' = dayIndex
    /\ editingIndex' = NoIndex
    /\ showCalendarModal' = TRUE
    /\ last' = "none"
    /\ UNCHANGED << typeVars, appVars, kanbanBoard, calendarFile, tzOffset, weekStart,
                    dayTasks, pendingRefresh, drops, lastDrop, needsRefresh, localEdits,
                    nextTaskId, nextColumnId, columnOps >>

\* openEditTask(task, dayIndex, index): the template passes the task at
\* index of day list dayIndex
openEditTask(dayIndex, index) ==
    /\ index < Len(dayTasks[dayIndex])
    /\ modalDayIndex' = dayIndex
    /\ editingIndex' = index
    /\ showCalendarModal' = TRUE
    /\ last' = "none"
    /\ UNCHANGED << typeVars, appVars, kanbanBoard, calendarFile, tzOffset, weekStart,
                    dayTasks, pendingRefresh, drops, lastDrop, needsRefresh, localEdits,
                    nextTaskId, nextColumnId, columnOps >>

\* closeTaskModal() of the calendar
calendarCloseTaskModal ==
    /\ showCalendarModal
    /\ showCalendarModal' = FALSE
    /\ last' = "none"
    /\ UNCHANGED << typeVars, appVars, kanbanBoard, calendarFile, tzOffset, weekStart,
                    dayTasks, pendingRefresh, drops, lastDrop, needsRefresh, localEdits,
                    modalDayIndex, editingIndex, nextTaskId, nextColumnId, columnOps >>

\* saveTaskFromModal() when the trimmed title is empty: it returns
saveTaskFromModalBlank(formTitle) ==
    /\ showCalendarModal
    /\ Trim(formTitle) = ""
    /\ last' = "none"
    /\ UNCHANGED << typeVars, appVars, calVars, kanbanBoard, nextTaskId, nextColumnId, columnOps >>

\* The mutant of saveTaskFromModalAdd: the new task is also pushed to the
\* first column of the stored board
saveTaskFromModalAddStores(formTitle, formDuration, formTypeId) ==
    /\ showCalendarModal
    /\ Trim(formTitle) # ""
    /\ editingIndex = NoIndex
    /\ nextTaskId < MaxCalendarTasks
    /\ localEdits.made < MaxCalendarEdits
    /\ nextTaskId' = nextTaskId + 1
    /\ LET newTask == [id |-> CalendarUUID(nextTaskId'), title |-> Trim(formTitle),
                       dayIndex |-> modalDayIndex, typeId |-> formTypeId,
                       durationMinutes |-> DurationMinutes(formDuration)]
           doc     == IF ItemTruthy(kanbanBoard) /\ ~ParseThrows(kanbanBoard)
                      THEN Parse(kanbanBoard) ELSE defaultColumns
       IN  /\ dayTasks' = [dayTasks EXCEPT ![modalDayIndex] = Append(@, newTask)]
           /\ kanbanBoard' = Stringify([doc EXCEPT ![1].tasks =
                                 Append(@, [id |-> newTask.id, title |-> newTask.title])])
    /\ showCalendarModal' = FALSE
    /\ localEdits' = [localEdits EXCEPT !.pending = @ \cup {"add"}, !.made = @ + 1]
    /\ last' = "saveTaskFromModal add"
    /\ UNCHANGED << typeVars, appVars, calendarFile, tzOffset, weekStart,
                    pendingRefresh, drops, lastDrop, needsRefresh, modalDayIndex, editingIndex,
                    nextColumnId, columnOps >>

\* saveTaskFromModal() with editingIndex null: a new CalendarTask is pushed
\* to the day list of the modal
saveTaskFromModalAdd(formTitle, formDuration, formTypeId) ==
    /\ showCalendarModal
    /\ Trim(formTitle) # ""
    /\ editingIndex = NoIndex
    /\ nextTaskId < MaxCalendarTasks
    /\ localEdits.made < MaxCalendarEdits
    /\ nextTaskId' = nextTaskId + 1
    /\ LET newTask == [id |-> CalendarUUID(nextTaskId'), title |-> Trim(formTitle),
                       dayIndex |-> modalDayIndex, typeId |-> formTypeId,
                       durationMinutes |-> DurationMinutes(formDuration)]
       IN  dayTasks' = [dayTasks EXCEPT ![modalDayIndex] = Append(@, newTask)]
    /\ showCalendarModal' = FALSE
    /\ localEdits' = [localEdits EXCEPT !.pending = @ \cup {"add"}, !.made = @ + 1]
    /\ last' = "saveTaskFromModal add"
    /\ UNCHANGED << typeVars, appVars, kanbanBoard, calendarFile, tzOffset, weekStart,
                    pendingRefresh, drops, lastDrop, needsRefresh, modalDayIndex, editingIndex,
                    nextColumnId, columnOps >>

\* saveTaskFromModal() with editingIndex set: the task at that index of the
\* modal's day list, if there is one, gets the form's title, duration and type
saveTaskFromModalEdit(formTitle, formDuration, formTypeId) ==
    /\ showCalendarModal
    /\ Trim(formTitle) # ""
    /\ editingIndex # NoIndex
    /\ localEdits.made < MaxCalendarEdits
    /\ LET list == dayTasks[modalDayIndex]
       IN  IF editingIndex < Len(list)
           THEN /\ dayTasks' = [dayTasks EXCEPT ![modalDayIndex][editingIndex + 1] =
                                   [@ EXCEPT !.title = Trim(formTitle),
                                             !.durationMinutes = DurationMinutes(formDuration),
                                             !.typeId = formTypeId]]
                /\ localEdits' = [localEdits EXCEPT !.pending = @ \cup {"edit"}, !.made = @ + 1]
           ELSE UNCHANGED << dayTasks, localEdits >>
    /\ showCalendarModal' = FALSE
    /\ last' = "saveTaskFromModal edit"
    /\ UNCHANGED << typeVars, appVars, kanbanBoard, calendarFile, tzOffset, weekStart,
                    pendingRefresh, drops, lastDrop, needsRefresh, modalDayIndex, editingIndex,
                    nextTaskId, nextColumnId, columnOps >>

\* deleteTask(dayIndex, taskIndex) of the calendar; confirmed is the answer
\* to confirm('Delete this task?')
calendarDeleteTask(dayIndex, taskIndex, confirmed) ==
    /\ taskIndex < Len(dayTasks[dayIndex])
    /\ localEdits.made < MaxCalendarEdits
    /\ IF confirmed
       THEN /\ dayTasks' = [dayTasks EXCEPT ![dayIndex] = RemoveAt(@, taskIndex)]
            /\ localEdits' = [localEdits EXCEPT !.pending = @ \cup {"delete"}, !.made = @ + 1]
            /\ last' = "calendar deleteTask"
       ELSE /\ UNCHANGED << dayTasks, localEdits >>
            /\ last' = "none"
    /\ UNCHANGED << typeVars, appVars, modalVars, kanbanBoard, calendarFile, tzOffset, weekStart,
                    pendingRefresh, drops, lastDrop, needsRefresh,
                    nextTaskId, nextColumnId, columnOps >>

\* What the user types in the modal: a title of blanks or with blanks
\* around it, a duration of half a minute (in halves of a minute)
FormTitles == { "  ", " Ops " }

FormDurations == { 1 }

FormTypeIds == { "meeting" }

\* The day column whose + button the user presses
AddButtons == { 6 }

NextCalendarEdits ==
    \/ \E i \in Days, j \in DropTargets :
         \E previousIndex \in 0..(Len(dayTasks[i]) - 1),
            currentIndex \in 0..(Len(dayTasks[j]) + 1) :
              onDrop000(i, j, previousIndex, currentIndex)
    \/ deferredRefresh
    \/ nextWeek
    \/ \E now \in Nows : today(now)
    \/ \E dayIndex \in AddButtons : openAddTask(dayIndex)
    \/ \E dayIndex \in Days : \E index \in 0..(Len(dayTasks[dayIndex]) - 1) :
         openEditTask(dayIndex, index)
    \/ calendarCloseTaskModal
    \/ \E formTitle \in FormTitles : saveTaskFromModalBlank(formTitle)
    \/ \E formTitle \in FormTitles, formDuration \in FormDurations, formTypeId \in FormTypeIds :
         saveTaskFromModalAdd(formTitle, formDuration, formTypeId)
    \/ \E formTitle \in FormTitles, formDuration \in FormDurations, formTypeId \in FormTypeIds :
         saveTaskFromModalEdit(formTitle, formDuration, formTypeId)
    \/ \E dayIndex \in Days : \E taskIndex \in 0..(Len(dayTasks[dayIndex]) - 1) :
         \E confirmed \in BOOLEAN : calendarDeleteTask(dayIndex, taskIndex, confirmed)

\* The calendar page (part_000) of a form-saved board, in UTC, on Wednesday 2024-06-05
InitCalendarEdits ==
    /\ initialized = FALSE
    /\ columns = << >>
    /\ showTaskModal = FALSE
    /\ currentColumn = Null
    /\ editingTask = Null
    /\ selectedStatusId = Null
    /\ formStatusId = Null
    /\ kanbanBoard = Stringify([defaultColumns EXCEPT
                                  ![1].tasks = << FormSavedUnscheduled, FormSavedScheduled >>])
    /\ calendarFile = "part_000"
    /\ tzOffset = 0
    /\ weekStart = getStartOfWeek(2 * DayLen + 720, tzOffset)
    /\ dayTasks = refreshCalendarFromStorage(kanbanBoard, weekStart)
    /\ pendingRefresh = 0
    /\ drops = 0
    /\ lastDrop = NoDrop
    /\ needsRefresh = FALSE
    /\ CalendarModalClosed
    /\ taskTypes = defaultTaskTypes
    /\ showEditTypesModal = FALSE
    /\ storedTaskTypes = NoItem
    /\ nextTaskId = 0
    /\ nextColumnId = 0
    /\ columnOps = 0
    /\ last = "constructor"

SpecCalendarEdits == InitCalendarEdits /\ [][NextCalendarEdits]_vars

\* The timer of onDrop fires: a pending callback is eventually run
SpecCalendarFair == SpecCalendar /\ WF_vars(deferredRefresh)

-----------------------------------------------------------------------------
(* Drag and drop on lists of three and two: the board's drop and the
   calendar's onDrop, each on its own page *)

\* A task as the task form stores it, dated day `day`
DropTask(n, day) ==
    NewTask(TaskUUID(n),
            [title |-> "Task", description |-> "a stored task", priority |-> "medium",
             dueDate |-> DateStr(day), assignee |-> "", estimatedTimeHours |-> 1,
             scheduleDate |-> DateStr(day), type |-> "operational"])

\* The board an earlier session stored after deleting two columns: three
\* tasks in 'new', dated Tuesday, and two in 'completed', dated Thursday
DropColumns ==
    << [defaultColumns[1] EXCEPT !.tasks = << DropTask(1, 1), DropTask(2, 1), DropTask(3, 1) >>],
       [defaultColumns[4] EXCEPT !.tasks = << DropTask(4, 3), DropTask(5, 3) >>] >>

\* Either the board page after ngOnInit has loaded DropColumns (the
\* calendar is not shown), or the calendar page after its constructor has
\* read them (the board is not shown)
InitDrops ==
    /\ showTaskModal = FALSE
    /\ currentColumn = Null
    /\ editingTask = Null
    /\ selectedStatusId = Null
    /\ formStatusId = Null
    /\ kanbanBoard = Stringify(DropColumns)
    /\ pendingRefresh = 0
    /\ drops = 0
    /\ lastDrop = NoDrop
    /\ needsRefresh = FALSE
    /\ CalendarModalClosed
    /\ taskTypes = defaultTaskTypes
    /\ showEditTypesModal = FALSE
    /\ storedTaskTypes = NoItem
    /\ nextTaskId = 0
    /\ nextColumnId = 0
    /\ columnOps = 0
    /\ \/ /\ initialized = TRUE
          /\ columns = Parse(kanbanBoard)
          /\ calendarFile = "part_000"
          /\ tzOffset = 0
          /\ weekStart = 0
          /\ dayTasks = [i \in 0..6 |-> << >>]
          /\ last = "none"
       \/ /\ initialized = FALSE
          /\ columns = << >>
          /\ calendarFile \in CalendarFiles
          /\ tzOffset \in Offsets
          /\ weekStart = getStartOfWeek(2 * DayLen + 720, tzOffset)
          /\ dayTasks = refreshCalendarFromStorage(kanbanBoard, weekStart)
          /\ last = "constructor"

NextDrops ==
    \/ \E p \in Positions, c \in Positions :
         \E previousIndex \in 0..(Len(columns[p].tasks) - 1),
            currentIndex \in 0..(Len(columns[c].tasks) + 1) :
              drop(p, c, previousIndex, currentIndex)
    \/ \E i \in Days, j \in Days :
         \E previousIndex \in 0..(Len(dayTasks[i]) - 1),
            currentIndex \in 0..(Len(dayTasks[j]) + 1) :
              onDrop000(i, j, previousIndex, currentIndex)
    \/ \E i \in Days, j \in Days :
         \E previousIndex \in 0..(Len(dayTasks[i]) - 1),
            currentIndex \in 0..(Len(dayTasks[j]) + 1) :
              onDrop001(i, j, previousIndex, currentIndex)
    \/ deferredRefresh

SpecDrops == InitDrops /\ [][NextDrops]_vars

-----------------------------------------------------------------------------
(* The board and the calendar in one page session: AppComponent has loaded
   the stored board in ngOnInit, then the calendar is opened on the same
   'kanbanBoard' item *)

\* The board an earlier session stored after deleting two columns: the
\* two form-saved tasks in 'new', none in 'completed'
SharedColumns ==
    << [defaultColumns[1] EXCEPT !.tasks = << FormSavedUnscheduled, FormSavedScheduled >>],
       defaultColumns[4] >>

InitShared ==
    /\ kanbanBoard = Stringify(SharedColumns)
    /\ initialized = TRUE
    /\ columns = loadFromLocalStorage(defaultColumns, kanbanBoard)
    /\ showTaskModal = FALSE
    /\ currentColumn = Null
    /\ editingTask = Null
    /\ selectedStatusId = Null
    /\ formStatusId = Null
    /\ calendarFile \in CalendarFiles
    /\ tzOffset = 0
    /\ weekStart = getStartOfWeek(2 * DayLen + 720, tzOffset)
    /\ dayTasks = refreshCalendarFromStorage(kanbanBoard, weekStart)
    /\ pendingRefresh = 0
    /\ drops = 0
    /\ lastDrop = NoDrop
    /\ needsRefresh = FALSE
    /\ CalendarModalClosed
    /\ taskTypes = defaultTaskTypes
    /\ showEditTypesModal = FALSE
    /\ storedTaskTypes = NoItem
    /\ nextTaskId = 0
    /\ nextColumnId = 0
    /\ columnOps = 0
    /\ last = "constructor"

NextShared ==
    \/ \E i \in Days, j \in DropTargets :
         \E previousIndex \in 0..(Len(dayTasks[i]) - 1),
            currentIndex \in 0..(Len(dayTasks[j]) + 1) :
              onDrop000(i, j, previousIndex, currentIndex)
    \/ \E i \in Days, j \in DropTargets :
         \E previousIndex \in 0..(Len(dayTasks[i]) - 1),
            currentIndex \in 0..(Len(dayTasks[j]) + 1) :
              onDrop001(i, j, previousIndex, currentIndex)
    \/ deferredRefresh
    \/ \E p \in Positions, c \in Positions :
         \E previousIndex \in 0..(Len(columns[p].tasks) - 1),
            currentIndex \in 0..(Len(columns[c].tasks) + 1) :
              drop(p, c, previousIndex, currentIndex)
    \/ \E c \in Positions : \E i \in 0..(Len(columns[c].tasks) - 1) : deleteTask(c, i)
    \/ \E c \in Positions : \E title \in Titles : updateColumnTitle(c, title)

SpecShared == InitShared /\ [][NextShared]_vars

-----------------------------------------------------------------------------
(* The calendar: claims *)

\* The handlers that end with refreshCalendarFromStorage()
Refreshes == { "constructor", "deferredRefresh", "setWeek" }

\* The tasks of the stored board
StoredTasks ==
    IF ~ItemTruthy(kanbanBoard) \/ ParseThrows(kanbanBoard) THEN {}
    ELSE LET all == FlatTasks(Parse(kanbanBoard)) IN { all[n] : n \in 1..Len(all) }

\* The day buckets that hold a CalendarTask with this id
BucketsOf(id) == { i \in Days : IndexOfId(dayTasks[i], id) > -1 }

\* The local calendar day of weekStart
WeekStartDay == LocalDay(weekStart, tzOffset)

\* C5 (as claimed): after a calendar drop that moves a CalendarTask from one
\* day list to day k, the date of the matching stored task is the calendar
\* date of weekStart + k days, in every local time zone, and the board is stored.
C5_DropRewritesDateToTargetDay ==
    ( /\ last = "onDrop"
      /\ lastDrop.source # lastDrop.target
      /\ Has(lastDrop.before, "id") )
    => /\ kanbanBoard.k = "json"
       /\ EffectiveDate(StoredTask(kanbanBoard, lastDrop.id))
            = DateStr(WeekStartDay + lastDrop.target)

\* C6 (as claimed): the write-back on a stored task whose scheduleDate is
\* missing or null and whose dueDate is set rewrites dueDate and leaves
\* scheduleDate as it was; on a task whose scheduleDate is set it rewrites
\* scheduleDate and leaves dueDate as it was.
C6_WriteBackPrefersScheduleDate ==
    (last = "onDrop" /\ lastDrop.wrote)
    => LET before == lastDrop.before
           after  == StoredTask(kanbanBoard, lastDrop.id)
           same(key) == /\ Has(after, key) <=> Has(before, key)
                        /\ Has(before, key) => after[key] = before[key]
       IN  /\ ( /\ ~Truthy(before, "scheduleDate")
                /\ (Has(before, "scheduleDate") => before.scheduleDate = NullV)
                /\ Truthy(before, "dueDate") )
              => ( /\ Has(after, "dueDate")
                   /\ after.dueDate = lastDrop.written
                   /\ same("scheduleDate") )
           /\ Truthy(before, "scheduleDate")
              => ( /\ Has(after, "scheduleDate")
                   /\ after.scheduleDate = lastDrop.written
                   /\ same("dueDate") )

\* C7 (as claimed): after a calendar drop has written a date to the stored
\* board, a refresh eventually runs and leaves dayTasks equal to the
\* projection of the stored board for the current weekStart.
C7_WriteBackLeadsToRefresh ==
    needsRefresh ~>
        ( /\ ~needsRefresh
          /\ dayTasks = refreshCalendarFromStorage(kanbanBoard, weekStart) )

\* C8 (as claimed): right after a refresh, a stored task dated on the
\* calendar day of weekStart is in day bucket 0 and a stored task dated 7
\* days later is in no bucket, in every local time zone.
C8_WeekBoundaries ==
    last \in Refreshes =>
        \A t \in StoredTasks :
            EffectiveDate(t).k = "date" =>
                /\ EffectiveDate(t).day = WeekStartDay
                     => IndexOfId(dayTasks[0], t.id) > -1
                /\ EffectiveDate(t).day = WeekStartDay + 7
                     => BucketsOf(t.id) = {}

\* The effective date the claim names: scheduleDate when the task has one, dueDate otherwise
C9_Effective(t) ==
    IF Has(t, "scheduleDate") /\ t.scheduleDate.k \in {"date", "invalid"} THEN t.scheduleDate
    ELSE IF Has(t, "dueDate") /\ t.dueDate.k \in {"date", "invalid"} THEN t.dueDate
    ELSE NullV

IsMondayMidnight(ws, tz) ==
    /\ (ws + tz) % DayLen = 0
    /\ ((ws + tz) \div DayLen) % 7 = 0

\* ws is the most recent Monday midnight on or before the instant date
IsWeekOf(ws, date, tz) ==
    /\ IsMondayMidnight(ws, tz)
    /\ ws <= date
    /\ date < ws + 7 * DayLen

\* C20: weekStart is always the local midnight of a Monday; today and
\* selectDate(d) set it to the most recent Monday on or before the given
\* date, prevWeek moves it back by exactly 7 days and nextWeek forward by
\* exactly 7 days (so nextWeek undoes prevWeek).
C20_WeekStartIsMondayMidnight ==
    /\ [] IsMondayMidnight(weekStart, tzOffset)
    /\ [][ /\ prevWeek => weekStart' = weekStart - 7 * DayLen
           /\ nextWeek => weekStart' = weekStart + 7 * DayLen
           /\ \A now \in Nows : today(now) => IsWeekOf(weekStart', now, tzOffset)
           /\ \A n \in PickedDays :
                 selectDate(n) => IsWeekOf(weekStart', n * DayLen - tzOffset, tzOffset) ]_vars

\* The calendar, in a zone west of UTC, shows the week before the one it
\* started with, after prevWeek or selectDate
C20_Witness ==
    /\ last = "setWeek"
    /\ tzOffset < 0
    /\ weekStart = 0 - 7 * DayLen - tzOffset

-----------------------------------------------------------------------------
(* Drag and drop on lists: claims *)

\* The ids of a list of tasks, in order
Ids(list) == [n \in 1..Len(list) |-> list[n].id]

\* `after` is `before` with the element at 0-based index i moved to index j:
\* same length, that element at j, the others in their old order
IsMoveOf(before, after, i, j) ==
    /\ Len(after) = Len(before)
    /\ after[j + 1] = before[i + 1]
    /\ RemoveAt(after, j) = RemoveAt(before, i)

\* The element at index i of sourceBefore has left the source and sits in
\* the target at index j, or at the tail when j is beyond the target's
\* length; the others keep their order
IsTransferOf(sourceBefore, targetBefore, sourceAfter, targetAfter, i, j) ==
    LET to == IF j > Len(targetBefore) THEN Len(targetBefore) ELSE j
    IN  /\ sourceAfter = RemoveAt(sourceBefore, i)
        /\ Len(targetAfter) = Len(targetBefore) + 1
        /\ targetAfter[to + 1] = sourceBefore[i + 1]
        /\ RemoveAt(targetAfter, to) = targetBefore

\* C18: a drop within one list from index i to index j, both inside the
\* list, leaves the list with the same length, the element formerly at i
\* at j and the other elements in their old order, on the board (drop) and
\* in the calendar (onDrop on one day, both versions).
C18_SameListDropMoves ==
    [][ /\ last' = "drop" =>
            \A p \in 1..Len(columns) :
              \A i \in 0..(Len(columns[p].tasks) - 1), j \in 0..(Len(columns[p].tasks) - 1) :
                drop(p, p, i, j)
                => /\ IsMoveOf(columns[p].tasks, columns'[p].tasks, i, j)
                   /\ \A q \in 1..Len(columns) : q # p => columns'[q] = columns[q]
        /\ (last' = "onDrop" /\ lastDrop'.source = lastDrop'.target) =>
            LET d == lastDrop'.target
            IN  \A i \in 0..(Len(dayTasks[d]) - 1), j \in 0..(Len(dayTasks[d]) - 1) :
                  (onDrop000(d, d, i, j) \/ onDrop001(d, d, i, j))
                  => /\ IsMoveOf(Ids(dayTasks[d]), Ids(dayTasks'[d]), i, j)
                     /\ \A e \in Days : e # d => dayTasks'[e] = dayTasks[e] ]_vars

\* The first calendar drop has moved the first of the three tasks of one
\* day to the end of that day
C18_Witness ==
    /\ last = "onDrop"
    /\ drops = 1
    /\ lastDrop.source = lastDrop.target
    /\ lastDrop.id = TaskUUID(1)
    /\ Ids(dayTasks[lastDrop.target]) = << TaskUUID(2), TaskUUID(3), TaskUUID(1) >>

\* C19: a drop from one list to another takes the element at fromIndex out
\* of the source and puts it into the target at toIndex, or at the tail
\* when toIndex is beyond the target's length; the other elements of both
\* lists keep their order, on the board and in the calendar.
C19_TransferClampsToTail ==
    [][ /\ last' = "drop" =>
            \A p \in 1..Len(columns), c \in 1..Len(columns) :
              \A i \in 0..(Len(columns[p].tasks) - 1), j \in 0..(Len(columns[c].tasks) + 1) :
                (p # c /\ drop(p, c, i, j))
                => IsTransferOf(columns[p].tasks, columns[c].tasks,
                                columns'[p].tasks, columns'[c].tasks, i, j)
        /\ (last' = "onDrop" /\ lastDrop'.source # lastDrop'.target) =>
            LET a == lastDrop'.source
                b == lastDrop'.target
            IN  \A i \in 0..(Len(dayTasks[a]) - 1), j \in 0..(Len(dayTasks[b]) + 1) :
                  (onDrop000(a, b, i, j) \/ onDrop001(a, b, i, j))
                  => IsTransferOf(Ids(dayTasks[a]), Ids(dayTasks[b]),
                                  Ids(dayTasks'[a]), Ids(dayTasks'[b]), i, j) ]_vars

\* A board drop has taken the first task of 'new' to the tail of
\* 'completed', which held two tasks
C19_Witness ==
    /\ last = "drop"
    /\ Ids(columns[1].tasks) = << TaskUUID(2), TaskUUID(3) >>
    /\ Ids(columns[2].tasks) = << TaskUUID(4), TaskUUID(5), TaskUUID(1) >>

-----------------------------------------------------------------------------
(* The calendar: drops, the modal and the stored board *)

\* C22 (as claimed): a calendar drop whose source and target are the same
\* day list writes no date: the stored task of the dragged CalendarTask,
\* the only one a drop can write to, is as it was before the drop.
C22_SameDayDropWritesNothing ==
    ( /\ last = "onDrop"
      /\ lastDrop.source = lastDrop.target
      /\ Has(lastDrop.before, "id") )
    => StoredTask(kanbanBoard, lastDrop.id) = lastDrop.before

\* C25 (as claimed): after a CalendarTask of a stored task was dropped on
\* day k, a refresh from storage for the displayed week puts that task in
\* day bucket k, in every local time zone.
C25_DropThenRefreshKeepsDay ==
    (last = "onDrop" /\ Has(lastDrop.before, "id"))
    => IndexOfId(refreshCalendarFromStorage(kanbanBoard, weekStart)[lastDrop.target],
                 lastDrop.id) > -1

\* C26 (as claimed): every CalendarTask in dayTasks[i] has dayIndex = i,
\* whatever refreshes, drops, modal saves and week changes came before.
C26_DayIndexIsListIndex ==
    \A i \in Days : \A n \in 1..Len(dayTasks[i]) : dayTasks[i][n].dayIndex = i

\* The handlers of AppComponent the claim names: none of them assigns a date field
UndatedBoardMutations == { "drop", "deleteTask", "updateColumnTitle" }

\* C24 (as claimed): once a calendar drop has written a date for task T to
\* 'kanbanBoard', a later drop, deleteTask or updateColumnTitle of the
\* board component (loaded before that write) leaves T's stored
\* scheduleDate and dueDate as they were, as long as T stays stored.
C24_BoardMutationKeepsWrittenDate ==
    [][ ( /\ last' \in UndatedBoardMutations
          /\ lastDrop.wrote
          /\ Has(StoredTask(kanbanBoard, lastDrop.id), "id")
          /\ Has(StoredTask(kanbanBoard', lastDrop.id), "id") )
        => LET before == StoredTask(kanbanBoard, lastDrop.id)
               after  == StoredTask(kanbanBoard', lastDrop.id)
           IN  /\ after.scheduleDate = before.scheduleDate
               /\ after.dueDate = before.dueDate ]_vars

\* The calendar's handlers that edit dayTasks without a drop
CalendarEdits == { "saveTaskFromModal add", "saveTaskFromModal edit", "calendar deleteTask" }

\* C27: saveTaskFromModal (add or edit) and deleteTask of the calendar leave
\* the stored 'kanbanBoard' item as it was, and right after every refresh
\* the day buckets are the projection of the stored board: a task the
\* calendar created is gone, an edit is reverted, a deleted task is back.
C27_CalendarEditsAreLocal ==
    /\ [][last' \in CalendarEdits => kanbanBoard' = kanbanBoard]_vars
    /\ [](last \in Refreshes =>
            /\ dayTasks = refreshCalendarFromStorage(kanbanBoard, weekStart)
            /\ \A i \in Days : \A n \in 1..Len(dayTasks[i]) :
                  \E t \in StoredTasks : dayTasks[i][n] = CalendarTaskOf(t, i))

\* A refresh has just discarded a task added in the modal, an edit made in
\* the modal and a deletion, and shows the stored tasks again
C27_Witness ==
    /\ last \in {"deferredRefresh", "setWeek"}
    /\ localEdits.discarded = {"add", "edit", "delete"}
    /\ nextTaskId > 0
    /\ dayTasks = refreshCalendarFromStorage(kanbanBoard, weekStart)
    /\ \E i \in Days : Len(dayTasks[i]) > 0

====
